---- MODULE Spec2Model ----
(***************************************************************************)
(* Model of the hexagonal pattern generator (HexagonalBarcodeGenerator)    *)
(* and of its colour filter pipeline (utils/colorFilters.ts).              *)
(*                                                                         *)
(* JavaScript numbers are IEEE-754 binary64 values.  The colour arithmetic *)
(* of the program multiplies and divides by decimal literals (1.3, 0.7,    *)
(* 1.4, ...) that are not representable in binary, and Math.round then     *)
(* decides on the result, so the arithmetic is modelled bit-exactly: a     *)
(* number is sign * mantissa * 2^exponent with an arbitrary-precision      *)
(* mantissa, and every operation rounds its exact result to 53 significant *)
(* bits, ties to even.                                                     *)
(***************************************************************************)
EXTENDS Integers, Sequences, FiniteSets, TLC

(***************************************************************************)
(* Arbitrary-precision naturals: little-endian sequences of limbs in       *)
(* 0..Base-1 without leading zero limbs; <<>> is zero.                     *)
(***************************************************************************)
LimbBits == 15
Base == 2^LimbBits

RECURSIVE BNorm(_)
BNorm(a) ==
  IF a = <<>> THEN <<>>
  ELSE IF a[Len(a)] = 0 THEN BNorm(SubSeq(a, 1, Len(a) - 1)) ELSE a

BFromInt(n) == BNorm(<<n % Base, n \div Base>>)

RECURSIVE BToInt(_)
BToInt(a) == IF a = <<>> THEN 0 ELSE Head(a) + Base * BToInt(Tail(a))

RECURSIVE BAddC(_, _, _)
BAddC(a, b, c) ==
  IF a = <<>> /\ b = <<>> THEN (IF c = 0 THEN <<>> ELSE <<c>>)
  ELSE LET x == IF a = <<>> THEN 0 ELSE Head(a)
           y == IF b = <<>> THEN 0 ELSE Head(b)
           s == x + y + c
       IN <<s % Base>> \o BAddC(IF a = <<>> THEN <<>> ELSE Tail(a),
                                IF b = <<>> THEN <<>> ELSE Tail(b),
                                s \div Base)

BAdd(a, b) == BAddC(a, b, 0)

\* a - b for a >= b
RECURSIVE BSubC(_, _, _)
BSubC(a, b, c) ==
  IF a = <<>> THEN <<>>
  ELSE LET y == IF b = <<>> THEN 0 ELSE Head(b)
           d == Head(a) - y - c
       IN <<IF d < 0 THEN d + Base ELSE d>>
            \o BSubC(Tail(a), IF b = <<>> THEN <<>> ELSE Tail(b),
                     IF d < 0 THEN 1 ELSE 0)

BSub(a, b) == BNorm(BSubC(a, b, 0))

\* -1, 0, 1 as a < b, a = b, a > b
RECURSIVE BCmpAt(_, _, _)
BCmpAt(a, b, i) ==
  IF i = 0 THEN 0
  ELSE IF a[i] < b[i] THEN -1
  ELSE IF a[i] > b[i] THEN 1
  ELSE BCmpAt(a, b, i - 1)

BCmp(a, b) ==
  IF Len(a) < Len(b) THEN -1
  ELSE IF Len(a) > Len(b) THEN 1
  ELSE BCmpAt(a, b, Len(a))

RECURSIVE BMulSmallC(_, _, _)
BMulSmallC(a, d, c) ==
  IF a = <<>> THEN (IF c = 0 THEN <<>> ELSE <<c>>)
  ELSE LET p == Head(a) * d + c
       IN <<p % Base>> \o BMulSmallC(Tail(a), d, p \div Base)

BMulSmall(a, d) == IF d = 0 THEN <<>> ELSE BMulSmallC(a, d, 0)

RECURSIVE BMul(_, _)
BMul(a, b) ==
  IF a = <<>> \/ b = <<>> THEN <<>>
  ELSE LET rest == BMul(a, Tail(b))
       IN BAdd(BMulSmall(a, Head(b)),
               IF rest = <<>> THEN <<>> ELSE <<0>> \o rest)

RECURSIVE Bits(_)
Bits(n) == IF n = 0 THEN 0 ELSE 1 + Bits(n \div 2)

BBitLen(a) ==
  IF a = <<>> THEN 0 ELSE LimbBits * (Len(a) - 1) + Bits(a[Len(a)])

BIsOdd(a) == a # <<>> /\ a[1] % 2 = 1

BBit(a, i) ==
  LET k == i \div LimbBits + 1
  IN IF k > Len(a) THEN 0 ELSE (a[k] \div 2^(i % LimbBits)) % 2

\* a * 2^s
BShl(a, s) ==
  IF a = <<>> THEN <<>>
  ELSE BMulSmall([i \in 1..(s \div LimbBits) |-> 0] \o a, 2^(s % LimbBits))

\* floor(a / 2^s)
BShr(a, s) ==
  LET q == s \div LimbBits
      t == s % LimbBits
      h == IF q >= Len(a) THEN <<>> ELSE SubSeq(a, q + 1, Len(a))
  IN BNorm([i \in 1..Len(h) |->
              (h[i] \div 2^t)
               + (IF i < Len(h) THEN (h[i + 1] % 2^t) * 2^(LimbBits - t)
                                ELSE 0)])

\* a mod 2^s
BLowBits(a, s) ==
  LET q == s \div LimbBits
      t == s % LimbBits
  IN IF q >= Len(a) THEN a
     ELSE BNorm(SubSeq(a, 1, q) \o <<a[q + 1] % 2^t>>)

\* the number of trailing zero bits of a # 0
BTrailingZeros(a) ==
  LET k == CHOOSE i \in 1..Len(a) : a[i] # 0 /\ \A j \in 1..(i - 1) : a[j] = 0
      t == CHOOSE i \in 0..(LimbBits - 1) :
             (a[k] \div 2^i) % 2 = 1 /\ a[k] % 2^i = 0
  IN LimbBits * (k - 1) + t

\* <<floor(n / d), n mod d>> by binary long division, d # 0: the bits hi..lo
\* of n are brought down onto the quotient q and remainder r so far, the
\* range being halved so that the evaluation stays shallow
RECURSIVE BDivRange(_, _, _, _, _, _)
BDivRange(n, d, hi, lo, q, r) ==
  IF hi < lo THEN <<q, r>>
  ELSE IF hi = lo
  THEN LET r2 == BAdd(BMulSmall(r, 2), BFromInt(BBit(n, hi)))
           ge == BCmp(r2, d) >= 0
       IN <<BAdd(BMulSmall(q, 2), IF ge THEN <<1>> ELSE <<>>),
            IF ge THEN BSub(r2, d) ELSE r2>>
  ELSE LET mid == (hi + lo) \div 2
           top == BDivRange(n, d, hi, mid + 1, q, r)
       IN IF Len(top) = 2 THEN BDivRange(n, d, mid, lo, top[1], top[2])
                          ELSE top

BDivMod(n, d) == BDivRange(n, d, BBitLen(n) - 1, 0, <<>>, <<>>)

(***************************************************************************)
(* IEEE-754 binary64 numbers: sg * m * 2^e, kept canonical (m odd; zero is *)
(* DZero).  The values of the program stay far inside the normal range, so *)
(* overflow, subnormals, infinities and NaN do not arise.                  *)
(***************************************************************************)
MantissaBits == 53

DZero == [sg |-> 1, m |-> <<>>, e |-> 0]

\* The operations on numbers, and the functions that are used in more than
\* one place, are applied through Call(name, arguments), which is declared
\* here and defined after them.
RECURSIVE Call(_, _)

RoundD(sg, m, e) == Call("RoundD", <<sg, m, e>>)

FromInt(n) == Call("FromInt", <<n>>)

FMul(a, b) == Call("FMul", <<a, b>>)

FAdd(a, b) == Call("FAdd", <<a, b>>)

FDiv(a, b) == Call("FDiv", <<a, b>>)

FCmp(a, b) == Call("FCmp", <<a, b>>)

MathRound(x) == Call("MathRound", <<x>>)

MathFloor(v) == Call("MathFloor", <<v>>)

MathSqrt(n) == Call("MathSqrt", <<n>>)

DCanon(sg, m, e) ==
  IF m = <<>> THEN DZero
  ELSE LET z == BTrailingZeros(m)
       IN [sg |-> sg, m |-> BShr(m, z), e |-> e + z]

\* round-to-nearest, ties-to-even, of the exact value sg * m * 2^e
DNearest(sg, m, e) ==
  LET len == BBitLen(m)
      sh == len - MantissaBits
  IN IF sh <= 0 THEN DCanon(sg, m, e)
     ELSE LET q == BShr(m, sh)
              c == BCmp(BLowBits(m, sh), BShl(<<1>>, sh - 1))
              up == c > 0 \/ (c = 0 /\ BIsOdd(q))
          IN DCanon(sg, IF up THEN BAdd(q, <<1>>) ELSE q, e + sh)

DFromInt(n) ==
  IF n < 0 THEN DCanon(-1, BFromInt(-n), 0) ELSE DCanon(1, BFromInt(n), 0)

FNeg(a) == IF a.m = <<>> THEN a ELSE [a EXCEPT !.sg = -a.sg]

DMul(a, b) == RoundD(a.sg * b.sg, BMul(a.m, b.m), a.e + b.e)

DAdd(a, b) ==
  LET e == IF a.e < b.e THEN a.e ELSE b.e
      ma == BShl(a.m, a.e - e)
      mb == BShl(b.m, b.e - e)
      c == BCmp(ma, mb)
  IN IF a.m = <<>> THEN b
     ELSE IF b.m = <<>> THEN a
     ELSE IF a.sg = b.sg THEN RoundD(a.sg, BAdd(ma, mb), e)
     ELSE IF c = 0 THEN DZero
     ELSE IF c > 0 THEN RoundD(a.sg, BSub(ma, mb), e)
     ELSE RoundD(b.sg, BSub(mb, ma), e)

FSub(a, b) == FAdd(a, FNeg(b))

\* <<q, r>> as 2 q + 1 if r # 0, 2 q if r = 0
BSticky(qr) ==
  BAdd(BMulSmall(qr[1], 2), IF qr[2] = <<>> THEN <<>> ELSE <<1>>)

\* the correctly rounded quotient a / b, b # 0: a quotient of at least 56
\* bits with the remainder folded into a sticky low bit, then rounded
DDiv(a, b) ==
  LET d == 56 + BBitLen(b.m) - BBitLen(a.m)
      k == IF d < 0 THEN 0 ELSE d
      m == BSticky(BDivMod(BShl(a.m, k), b.m))
  IN IF a.m = <<>> THEN DZero
     ELSE RoundD(a.sg * b.sg, m, a.e - b.e - k - 1)

\* -1, 0, 1 as a < b, a = b, a > b
DCmp(a, b) ==
  LET sa == IF a.m = <<>> THEN 0 ELSE a.sg
      sb == IF b.m = <<>> THEN 0 ELSE b.sg
      e == IF a.e < b.e THEN a.e ELSE b.e
  IN IF sa < sb THEN -1
     ELSE IF sa > sb THEN 1
     ELSE IF sa = 0 THEN 0
     ELSE sa * BCmp(BShl(a.m, a.e - e), BShl(b.m, b.e - e))

FLt(a, b) == FCmp(a, b) < 0
FGt(a, b) == FCmp(a, b) > 0
FEq(a, b) == FCmp(a, b) = 0

\* Math.min / Math.max of two numbers
MathMin(a, b) == IF FLt(b, a) THEN b ELSE a
MathMax(a, b) == IF FGt(b, a) THEN b ELSE a

\* Math.round: the nearest integer, halves towards +infinity
DMathRound(x) ==
  LET t == -x.e
      half == BShl(<<1>>, t - 1)
      one == BShl(<<1>>, t)
  IN IF x.e >= 0 THEN x.sg * BToInt(BShl(x.m, x.e))
     ELSE IF x.sg = 1 THEN BToInt(BShr(BAdd(x.m, half), t))
     ELSE IF BCmp(x.m, half) <= 0 THEN 0
     ELSE -BToInt(BShr(BAdd(BSub(x.m, half), BSub(one, <<1>>)), t))

\* the number written as the decimal literal n/d in the source text
Lit(n, d) == FDiv(FromInt(n), FromInt(d))

(***************************************************************************)
(* utils/colorFilters.ts.  A colour string "rgb(R, G, B)" is the triple    *)
(* <<R, G, B>> of the integers it prints.  An absent optional argument, or *)
(* an array element past the end, is Undefined.                            *)
(***************************************************************************)
Undefined == <<>>

FilterType ==
  {"none", "frame-based", "vibrant", "dynamic", "contrast", "neon",
   "gradient-flow"}

\* the pattern rgb\((\d+),\s*(\d+),\s*(\d+)\) matches digits only: a colour
\* printed with a minus sign does not match and parses as black
parseRGB(color) ==
  IF \E i \in 1..3 : color[i] < 0
  THEN [r |-> DZero, g |-> DZero, b |-> DZero]
  ELSE [r |-> FromInt(color[1]), g |-> FromInt(color[2]),
        b |-> FromInt(color[3])]

rgbToString(rgb) == <<MathRound(rgb.r), MathRound(rgb.g), MathRound(rgb.b)>>

Max3(x, y, z) == MathMax(MathMax(x, y), z)

enhanceVibrance(rgb) ==
  LET max == Max3(rgb.r, rgb.g, rgb.b)
      saturationBoost == Lit(13, 10)
      minBoost == Lit(7, 10)
      ch(c) == MathMin(FromInt(255),
                       FMul(c, IF FEq(c, max) THEN saturationBoost
                                              ELSE minBoost))
  IN IF FEq(max, DZero) THEN rgb
     ELSE [r |-> ch(rgb.r), g |-> ch(rgb.g), b |-> ch(rgb.b)]

applyVibrantFilter(rgb) ==
  LET enhanced == Call("enhanceVibrance", <<rgb>>)
      brightness == FDiv(FAdd(FAdd(enhanced.r, enhanced.g), enhanced.b),
                         FromInt(3 * 255))
      boost == IF FLt(brightness, Lit(5, 10)) THEN Lit(14, 10)
                                              ELSE Lit(11, 10)
      ch(c) == MathMin(FromInt(255), FMul(c, boost))
  IN rgbToString([r |-> ch(enhanced.r), g |-> ch(enhanced.g),
                  b |-> ch(enhanced.b)])

applyDynamicFilter(rgb) ==
  LET brightness == FDiv(FAdd(FAdd(rgb.r, rgb.g), rgb.b), FromInt(3 * 255))
      contrast == IF FGt(brightness, Lit(5, 10)) THEN Lit(13, 10)
                                                 ELSE Lit(8, 10)
      ch(c) == MathMin(FromInt(255),
                 MathMax(DZero,
                   FAdd(FMul(FSub(c, FromInt(128)), contrast), FromInt(128))))
  IN rgbToString([r |-> ch(rgb.r), g |-> ch(rgb.g), b |-> ch(rgb.b)])

\* applyContrastFilter with the comparison rgb.c >= threshold
applyContrastFilterFrom(rgb) ==
  LET threshold == FromInt(128)
      contrastBoost == Lit(14, 10)
      ch(c) == IF ~FLt(c, threshold)
               THEN MathMin(FromInt(255), FMul(c, contrastBoost))
               ELSE FDiv(c, contrastBoost)
  IN rgbToString([r |-> ch(rgb.r), g |-> ch(rgb.g), b |-> ch(rgb.b)])

\* applyContrastFilter without the Math.min of line 91
applyContrastFilterUnclamped(rgb) ==
  LET threshold == FromInt(128)
      contrastBoost == Lit(14, 10)
      ch(c) == IF FGt(c, threshold) THEN FMul(c, contrastBoost)
                                    ELSE FDiv(c, contrastBoost)
  IN rgbToString([r |-> ch(rgb.r), g |-> ch(rgb.g), b |-> ch(rgb.b)])

applyContrastFilter(rgb) ==
  LET threshold == FromInt(128)
      contrastBoost == Lit(14, 10)
      ch(c) == IF FGt(c, threshold)
               THEN MathMin(FromInt(255), FMul(c, contrastBoost))
               ELSE FDiv(c, contrastBoost)
  IN rgbToString([r |-> ch(rgb.r), g |-> ch(rgb.g), b |-> ch(rgb.b)])

applyNeonFilter(rgb) ==
  LET max == Max3(rgb.r, rgb.g, rgb.b)
      neonBoost == Lit(15, 10)
      secondaryBoost == Lit(6, 10)
      ch(c) == IF FEq(c, max) THEN MathMin(FromInt(255), FMul(c, neonBoost))
                              ELSE FMul(c, secondaryBoost)
  IN rgbToString([r |-> ch(rgb.r), g |-> ch(rgb.g), b |-> ch(rgb.b)])

\* applyGradientFlow blending with prev itself, not with enhancedPrev
applyGradientFlowPlainPrev(rgb, prev) ==
  LET flowFactor == Lit(3, 10)
      enhanced == Call("enhanceVibrance", <<rgb>>)
      ch(c, p) == FAdd(FMul(c, FSub(FromInt(1), flowFactor)),
                       FMul(p, flowFactor))
  IN IF prev = Undefined THEN rgbToString(Call("enhanceVibrance", <<rgb>>))
     ELSE rgbToString([r |-> ch(enhanced.r, prev.r),
                       g |-> ch(enhanced.g, prev.g),
                       b |-> ch(enhanced.b, prev.b)])

applyGradientFlow(rgb, prev) ==
  LET flowFactor == Lit(3, 10)
      enhanced == Call("enhanceVibrance", <<rgb>>)
      enhancedPrev == Call("enhanceVibrance", <<prev>>)
      ch(c, p) == FAdd(FMul(c, FSub(FromInt(1), flowFactor)),
                       FMul(p, flowFactor))
  IN IF prev = Undefined THEN rgbToString(Call("enhanceVibrance", <<rgb>>))
     ELSE rgbToString([r |-> ch(enhanced.r, enhancedPrev.r),
                       g |-> ch(enhanced.g, enhancedPrev.g),
                       b |-> ch(enhanced.b, enhancedPrev.b)])

applyColorFilter(color, filter, previousColor) ==
  LET rgb == parseRGB(color)
      prev == IF previousColor # Undefined THEN parseRGB(previousColor)
                                           ELSE Undefined
  IN CASE filter = "vibrant" -> applyVibrantFilter(rgb)
       [] filter = "dynamic" -> applyDynamicFilter(rgb)
       [] filter = "frame-based" -> color
       [] filter = "contrast" -> applyContrastFilter(rgb)
       [] filter = "neon" -> applyNeonFilter(rgb)
       [] filter = "gradient-flow" -> applyGradientFlow(rgb, prev)
       [] OTHER -> color

(***************************************************************************)
(* getBrightestColor.  An ImageData is the sequence of its pixels in       *)
(* row-major order, each pixel <<r, g, b>> (the alpha byte is never read). *)
(***************************************************************************)
\* the loop of getBrightestColor from pixel i on: best is
\* [max |-> maxBrightness, px |-> <<brightestR, brightestG, brightestB>>]
RECURSIVE BrightestScan(_, _, _)
BrightestScan(data, i, best) ==
  IF i > Len(data) THEN best
  ELSE LET r == FromInt(data[i][1])
           g == FromInt(data[i][2])
           b == FromInt(data[i][3])
           brightness ==
             FAdd(FAdd(FMul(r, Lit(299, 1000)), FMul(g, Lit(587, 1000))),
                  FMul(b, Lit(114, 1000)))
       IN BrightestScan(data, i + 1,
            IF FGt(brightness, best.max)
            THEN [max |-> brightness, px |-> data[i]]
            ELSE best)

getBrightestColor(imageData) ==
  LET best == Call("BrightestScan",
                   <<imageData, 1, [max |-> DZero, px |-> <<0, 0, 0>>]>>)
      brightest == [r |-> FromInt(best.px[1]), g |-> FromInt(best.px[2]),
                    b |-> FromInt(best.px[3])]
      maxChannel == Max3(brightest.r, brightest.g, brightest.b)
      saturationBoost == Lit(12, 10)
      ch(c) == MathMin(FromInt(255), FMul(c, saturationBoost))
  IN IF FGt(maxChannel, DZero)
     THEN rgbToString([r |-> ch(brightest.r), g |-> ch(brightest.g),
                       b |-> ch(brightest.b)])
     ELSE rgbToString(brightest)

(***************************************************************************)
(* More of the Math object, as generatePattern uses it.                    *)
(***************************************************************************)
\* Math.floor of a number >= 0
DMathFloor(v) ==
  IF v.e >= 0 THEN BToInt(BShl(v.m, v.e)) ELSE BToInt(BShr(v.m, -v.e))

\* floor(sqrt(n)): the bits hi..lo of the root are decided from the top
RECURSIVE BSqrtRange(_, _, _, _)
BSqrtRange(n, hi, lo, root) ==
  IF hi < lo THEN root
  ELSE IF hi = lo
  THEN LET cand == BAdd(root, BShl(<<1>>, hi))
       IN IF BCmp(BMul(cand, cand), n) <= 0 THEN cand ELSE root
  ELSE LET mid == (hi + lo) \div 2
           top == BSqrtRange(n, hi, mid + 1, root)
       IN IF BCmp(top, root) >= 0 THEN BSqrtRange(n, mid, lo, top) ELSE top

\* the root of n as 2 root + 1 if it is inexact, 2 root if it is exact
BStickyRoot(root, n) ==
  BAdd(BMulSmall(root, 2),
       IF BCmp(BMul(root, root), n) = 0 THEN <<>> ELSE <<1>>)

\* Math.sqrt of a positive integer, correctly rounded: the integer root of
\* n * 2^108 with a sticky low bit for an inexact root
DMathSqrt(n) ==
  LET scaled == BShl(BFromInt(n), 2 * 54)
  IN RoundD(1, BStickyRoot(BSqrtRange(scaled, BBitLen(scaled) \div 2, 0, <<>>),
                            scaled),
             -54 - 1)

(***************************************************************************)
(* The grid of generatePattern.  The source fixes width = 1000,            *)
(* height = 600 and hexRadius = 40 (16 columns of 8 rows); the model keeps *)
(* hexRadius and runs on a smaller canvas, 2 columns of 2 rows.            *)
(***************************************************************************)
width == 120
height == 140
hexRadius == 40
\* a cell larger than the canvas: a grid of no cells
wideHexRadius == 200
MaxRuns == 2

hexHeightOf(size) == FMul(FromInt(size), MathSqrt(3))

\* columns with a horizontal stride of one radius
columnsOfRadius(w, size) == MathFloor(FDiv(FromInt(w), FromInt(size)))

columnsOf(w, size) ==
  MathFloor(FDiv(FromInt(w), FMul(FromInt(size), Lit(15, 10))))

rowsOf(h, size) == MathFloor(FDiv(FromInt(h), hexHeightOf(size)))

Radii == {hexRadius, wideHexRadius}

layoutOf(w, h, size) ==
  [columns |-> columnsOf(w, size), rows |-> rowsOf(h, size)]

Layout == [size \in Radii |-> Call("layoutOf", <<width, height, size>>)]

MaxTotal == Layout[hexRadius].rows * Layout[hexRadius].columns

\* setProgress with the count of the cells before the one just drawn
progressOfBefore(hexIndex, totalHexagons) ==
  FMul(FDiv(FromInt(hexIndex - 1), FromInt(totalHexagons)), FromInt(100))

\* (hexIndex / totalHexagons) * 100
progressOf(hexIndex, totalHexagons) ==
  FMul(FDiv(FromInt(hexIndex), FromInt(totalHexagons)), FromInt(100))

ProgressTable ==
  [total \in 1..Call("MaxTotal", <<>>) |->
     [k \in 0..total |-> Call("progressOf", <<k, total>>)]]

(***************************************************************************)
(* The video source.  An object URL names a video; VideoDuration is its    *)
(* duration in seconds and VideoFrame(u, i) the 2-pixel raster that        *)
(* drawImage/getImageData capture after the seek for cell i.               *)
(***************************************************************************)
Urls == {"blob:a", "blob:b"}

\* the filters the parent offers to the component in this model: the mode
\* that fills a cell with its frame, a colour mode that ignores
\* previousColor and the colour mode that consults it
Offered == {"frame-based", "vibrant", "gradient-flow"}

VideoDuration(u) == IF u = "blob:a" THEN 10 ELSE 7

VideoFrame(u, i) ==
  IF u = "blob:a"
  THEN <<<<(154 + 50 * i) % 256, (71 + 40 * i) % 256, 71>>, <<5, 5, 5>>>>
  ELSE <<<<10, 10, (10 + 40 * i) % 256>>,
         <<(200 - 60 * i) % 256, 45, 100>>>>

\* the seek target of the cell after the current one
currentTimeOfNext(hexIndex, totalHexagons, duration) ==
  FMul(FDiv(FromInt(hexIndex + 1), FromInt(totalHexagons)), FromInt(duration))

\* (hexIndex / totalHexagons) * video.duration
currentTimeOf(hexIndex, totalHexagons, duration) ==
  FMul(FDiv(FromInt(hexIndex), FromInt(totalHexagons)), FromInt(duration))

SeekTable ==
  [u \in Urls |->
     [total \in 1..Call("MaxTotal", <<>>) |->
        [k \in 0..(total - 1) |->
           Call("currentTimeOf", <<k, total, VideoDuration(u)>>)]]]

\* getBrightestColor(frameData) for every frame a run can capture
Candidates ==
  [u \in Urls |-> [i \in 0..(Call("MaxTotal", <<>>) - 1) |->
                     Call("getBrightestColor", <<VideoFrame(u, i)>>)]]

RawColors ==
  {Call("Candidates", <<>>)[u][i] :
     u \in Urls, i \in 0..(Call("MaxTotal", <<>>) - 1)}

\* applyColorFilter on every argument triple a run can pass
Filtered ==
  [filter \in FilterType |->
     [color \in Call("RawColors", <<>>) |->
        [previousColor \in Call("RawColors", <<>>) \cup {Undefined} |->
           Call("applyColorFilter", <<color, filter, previousColor>>)]]]

\* the application of an operator, or the value of a table, by its name
Call(op, args) ==
  CASE op = "RoundD" -> DNearest(args[1], args[2], args[3])
    [] op = "FromInt" -> DFromInt(args[1])
    [] op = "FMul" -> DMul(args[1], args[2])
    [] op = "FAdd" -> DAdd(args[1], args[2])
    [] op = "FDiv" -> DDiv(args[1], args[2])
    [] op = "FCmp" -> DCmp(args[1], args[2])
    [] op = "MathRound" -> DMathRound(args[1])
    [] op = "MathFloor" -> DMathFloor(args[1])
    [] op = "MathSqrt" -> DMathSqrt(args[1])
    [] op = "enhanceVibrance" -> enhanceVibrance(args[1])
    [] op = "applyColorFilter" -> applyColorFilter(args[1], args[2], args[3])
    [] op = "getBrightestColor" -> getBrightestColor(args[1])
    [] op = "layoutOf" -> layoutOf(args[1], args[2], args[3])
    [] op = "BrightestScan" -> BrightestScan(args[1], args[2], args[3])
    [] op = "progressOf" -> progressOf(args[1], args[2])
    [] op = "currentTimeOf" -> currentTimeOf(args[1], args[2], args[3])
    [] op = "MaxTotal" -> MaxTotal
    [] op = "Candidates" -> Candidates
    [] op = "RawColors" -> RawColors

(***************************************************************************)
(* HexagonalBarcodeGenerator.                                              *)
(*                                                                         *)
(* videoUrl, colorFilter : the props, and the dependencies of the effect   *)
(* progress, error, colors : the useState values of the component          *)
(* runs   : one record per call of generatePattern, with the closure of    *)
(*          the effect that made it (its videoUrl, colorFilter and colors, *)
(*          its cancelled flag, its video element) and its position        *)
(* effect : the run whose cleanup is registered, 0 when the last effect    *)
(*          returned before registering one                                *)
(* canvas : the output canvas: whether the background is filled and, per   *)
(*          cell <<row, col>>, the fill drawn since the canvas was reset   *)
(* radius : the hexRadius local of generatePattern                         *)
(* call, result : an application of applyColorFilter on its own            *)
(*                                                                         *)
(* A run is suspended at pc = "awaitMetadata" (line 98) or "awaitSeek"     *)
(* (line 138) and is over at "done" (the function ran to its end),         *)
(* "returned" (line 131) or "caught" (line 161).  Its video element calls  *)
(* the handlers the run registered; the source does nothing to keep a      *)
(* handler from being called after the cleanup has cleared video.src, so   *)
(* the video source may call it then, too.                                 *)
(*                                                                         *)
(* The canvas element is rendered only while error is empty (line 174), so *)
(* canvasRef.current is null exactly when error is set.                    *)
(*                                                                         *)
(* Per run, fills, prevs, draws, progressCalls and errorCalls record what  *)
(* the run did: the fill of each cell it drew, the previousColor it passed *)
(* to applyColorFilter for each cell, and how many times it drew on the    *)
(* output canvas, called setProgress and called setError with a message.   *)
(***************************************************************************)
VARIABLES videoUrl, colorFilter, progress, error, colors, runs, effect,
          canvas, radius, call, result

vars == <<videoUrl, colorFilter, progress, error, colors, runs, effect,
          canvas, radius, call, result>>

Runs == DOMAIN runs

totalHexagons(run) == run.rows * run.columns

BlankCanvas(grid, bg) ==
  [bg |-> bg,
   cells |-> [cell \in (0..(grid.rows - 1)) \X (0..(grid.columns - 1))
                |-> <<>>]]

NoCall == [color |-> <<0, 0, 0>>, filter |-> "none", previousColor |-> <<>>]

\* lines 20-29 and 93-101: the effect makes the video element and the
\* closure, generatePattern runs up to its first await
NewRun(url, filter, history) ==
  [videoUrl |-> url, colorFilter |-> filter, colors |-> history,
   cancelled |-> FALSE, src |-> url, pc |-> "awaitMetadata",
   rows |-> 0, columns |-> 0, row |-> 0, col |-> 0, hexIndex |-> 0,
   newColors |-> <<>>, currentTime |-> DZero, seekFailed |-> FALSE,
   fills |-> <<>>, prevs |-> <<>>, draws |-> 0, progressCalls |-> 1,
   errorCalls |-> 0]

\* the component after its first render and effect: either the first run
\* is at its first await, or getContext returned null (lines 24-27)
Mounted(rad) ==
  /\ videoUrl \in Urls
  /\ colorFilter \in Offered
  /\ radius = rad
  /\ progress = DZero
  /\ colors = <<>>
  /\ canvas = BlankCanvas(Layout[rad], FALSE)
  /\ \/ /\ error = ""
        /\ runs = <<NewRun(videoUrl, colorFilter, <<>>)>>
        /\ effect = 1
     \/ /\ error = "Canvas context not supported"
        /\ runs = <<>>
        /\ effect = 0
  /\ call = NoCall
  /\ result = <<>>

Init == Mounted(hexRadius)

\* an effect without a cleanup: the runs stay as they are
CleanedNothing == runs

\* the cleanup of the registered effect (lines 167-171), as it leaves runs
Cleaned ==
  IF effect = 0 THEN runs
  ELSE [runs EXCEPT ![effect].cancelled = TRUE, ![effect].src = ""]

\* a change of a dependency: the component renders with the new props, the
\* registered cleanup runs, then the effect (lines 17-29, 165) and
\* generatePattern up to its first await (lines 93-101).  The closure of
\* the new effect holds colors as rendered, before the cleanup cleared it.
Rerun(url, filter) ==
  /\ videoUrl' = url
  /\ colorFilter' = filter
  /\ IF error = ""
     THEN /\ Len(runs) < MaxRuns
          /\ runs' = Append(Cleaned, NewRun(url, filter, colors))
          /\ effect' = Len(runs) + 1
          /\ progress' = DZero
          /\ error' = ""
          /\ colors' = <<>>
     ELSE /\ runs' = Cleaned
          /\ effect' = 0
          /\ colors' = IF effect = 0 THEN colors ELSE <<>>
          /\ UNCHANGED <<progress, error>>
  /\ UNCHANGED <<canvas, radius, call, result>>

ChangeVideo(url) == url # videoUrl /\ Rerun(url, colorFilter)

ChangeFilter(filter) == filter # colorFilter /\ Rerun(videoUrl, filter)

\* the loop header and the head of the loop body (lines 129-138) on
\* reaching <<row, col>>: the loops are over, or the run returns because it
\* is cancelled, or it seeks and suspends
Continue(run, row, col) ==
  IF run.columns = 0 \/ row >= run.rows
  THEN [run EXCEPT !.pc = "done", !.row = row, !.col = col]
  ELSE IF run.cancelled
  THEN [run EXCEPT !.pc = "returned", !.row = row, !.col = col]
  ELSE [run EXCEPT !.pc = "awaitSeek", !.row = row, !.col = col,
                   !.currentTime =
                      SeekTable[run.videoUrl][totalHexagons(run)][run.hexIndex]]

\* lines 157-159, reached when the loops are over
ColorsAfter(run) ==
  IF run.pc = "done" /\ run.colorFilter # "frame-based" THEN run.newColors
  ELSE colors

\* the catch block (lines 160-162)
Caught(run) == [run EXCEPT !.pc = "caught", !.errorCalls = @ + 1]

\* the run r goes on as next, up to its next await or to its end
Resumed(r, next) ==
  /\ runs' = [runs EXCEPT ![r] = next]
  /\ colors' = ColorsAfter(next)

\* lines 103-115: the canvas is reset and filled, the grid is computed
Sized(run, grid) ==
  [run EXCEPT !.rows = grid.rows, !.columns = grid.columns, !.draws = @ + 2]

\* video.onloadedmetadata: lines 103-131
LoadedMetadata(r) ==
  /\ r \in Runs
  /\ runs[r].pc = "awaitMetadata"
  /\ Resumed(r, Continue(Sized(runs[r], Layout[radius]), 0, 0))
  /\ canvas' = BlankCanvas(Layout[radius], TRUE)
  /\ UNCHANGED <<videoUrl, colorFilter, progress, error, effect, radius,
                 call, result>>

\* video.onloadedmetadata when the temporary canvas has no 2d context:
\* lines 103-124 and the catch block
NoTempContext(r) ==
  /\ r \in Runs
  /\ runs[r].pc = "awaitMetadata"
  /\ runs' = [runs EXCEPT ![r] = Caught([runs[r] EXCEPT !.draws = @ + 2])]
  /\ canvas' = BlankCanvas(Layout[radius], TRUE)
  /\ error' = "Temp canvas context not available"
  /\ UNCHANGED <<videoUrl, colorFilter, progress, colors, effect, radius,
                 call, result>>

\* video.onerror while the metadata promise is pending, with a catch block
\* that sets no message
MetadataErrorUnreported(r) ==
  /\ r \in Runs
  /\ runs[r].pc = "awaitMetadata"
  /\ runs' = [runs EXCEPT ![r] = Caught(runs[r])]
  /\ UNCHANGED <<videoUrl, colorFilter, progress, error, colors, effect,
                 canvas, radius, call, result>>

\* video.onerror while the metadata promise is pending: the promise is
\* rejected with the event, which is not an Error (line 161)
MetadataError(r) ==
  /\ r \in Runs
  /\ runs[r].pc = "awaitMetadata"
  /\ runs' = [runs EXCEPT ![r] = Caught(runs[r])]
  /\ error' = "Error processing video"
  /\ UNCHANGED <<videoUrl, colorFilter, progress, colors, effect, canvas,
                 radius, call, result>>

\* index > 0 ? colors[index - 1] : undefined, in the closure (line 77)
previousColorOf(run) ==
  IF run.hexIndex > 0 /\ run.hexIndex <= Len(run.colors)
  THEN run.colors[run.hexIndex] ELSE Undefined

\* drawHexagon (lines 31-89): the fill of the cell, the frame itself or the
\* filtered colour
fillOf(run, color) ==
  IF run.colorFilter = "frame-based"
  THEN VideoFrame(run.videoUrl, run.hexIndex)
  ELSE Filtered[run.colorFilter][color][previousColorOf(run)]

\* lines 144-153: the cell is drawn and counted
Drawn(run, color, fill) ==
  [run EXCEPT
     !.newColors = IF run.colorFilter = "frame-based" THEN @
                   ELSE Append(@, color),
     !.fills = Append(@, fill),
     !.prevs = IF run.colorFilter = "frame-based" THEN @
               ELSE Append(@, previousColorOf(run)),
     !.draws = @ + 1,
     !.hexIndex = @ + 1,
     !.progressCalls = @ + 1]

\* col++, then row++ (lines 129-130), and the head of the next iteration
Stepped(run) ==
  IF run.col + 1 >= run.columns THEN Continue(run, run.row + 1, 0)
  ELSE Continue(run, run.row, run.col + 1)

\* lines 144-155 with the fill of the cell, then the loop header
Filled(r, run, color, fill) ==
  /\ Resumed(r, Stepped(Drawn(run, color, fill)))
  /\ canvas' = [canvas EXCEPT !.cells[<<run.row, run.col>>] = fill]
  /\ progress' = ProgressTable[totalHexagons(run)][run.hexIndex + 1]
  /\ UNCHANGED <<videoUrl, colorFilter, error, effect, radius, call, result>>

\* lines 140-147 with the colour of the captured frame
Captured(r, run, color) == Filled(r, run, color, fillOf(run, color))

\* video.onseeked: lines 140-155, then the loop header and the head of the
\* next iteration, or lines 157-159
Seeked(r) ==
  /\ r \in Runs
  /\ runs[r].pc = "awaitSeek"
  /\ ~runs[r].seekFailed
  /\ Captured(r, runs[r], Candidates[runs[r].videoUrl][runs[r].hexIndex])

\* video.onseeked when drawImage or getImageData throws (lines 141-142)
CaptureFails(r) ==
  /\ r \in Runs
  /\ runs[r].pc = "awaitSeek"
  /\ ~runs[r].seekFailed
  /\ runs' = [runs EXCEPT ![r] = Caught(runs[r])]
  /\ error' = "The source image could not be decoded"
  /\ UNCHANGED <<videoUrl, colorFilter, progress, colors, effect, canvas,
                 radius, call, result>>

\* video.onerror while a seek is pending: the handler is the reject of the
\* metadata promise, which is settled (line 100), and the promise of the
\* seek has no reject (line 138); the seek does not settle
SeekError(r) ==
  /\ r \in Runs
  /\ runs[r].pc = "awaitSeek"
  /\ ~runs[r].seekFailed
  /\ runs' = [runs EXCEPT ![r].seekFailed = TRUE]
  /\ UNCHANGED <<videoUrl, colorFilter, progress, error, colors, effect,
                 canvas, radius, call, result>>

Next ==
  \/ \E url \in Urls : ChangeVideo(url)
  \/ \E filter \in Offered : ChangeFilter(filter)
  \/ \E r \in 1..MaxRuns : LoadedMetadata(r)
  \/ \E r \in 1..MaxRuns : NoTempContext(r)
  \/ \E r \in 1..MaxRuns : MetadataError(r)
  \/ \E r \in 1..MaxRuns : Seeked(r)
  \/ \E r \in 1..MaxRuns : CaptureFails(r)
  \/ \E r \in 1..MaxRuns : SeekError(r)

Spec == Init /\ [][Next]_vars

\* the component on a canvas that holds the grid of the source's cell size,
\* or on one that a cell does not fit in
InitGrid == \E rad \in Radii : Mounted(rad)

SpecGrid == InitGrid /\ [][Next]_vars

\* the component when the video source settles what a run waits for: a
\* pending loadedmetadata or seeked handler is eventually called, unless
\* the source fails first
SpecLive ==
  /\ Init
  /\ [][Next]_vars
  /\ \A r \in 1..MaxRuns : WF_vars(LoadedMetadata(r)) /\ WF_vars(Seeked(r))

(***************************************************************************)
(* applyColorFilter on its own: one call on a colour, a filter and an      *)
(* optional previous colour, and its result.                               *)
(***************************************************************************)
Channels == {0, 1, 128, 197, 255}

SampleColors ==
  {<<r, g, b>> : r \in Channels, g \in Channels, b \in Channels}
    \cup {<<154, 71, 71>>, <<200, 50, 10>>, <<10, 200, 10>>, <<45, 175, 165>>,
          <<85, 255, 175>>}

SamplePrevious ==
  {Undefined, <<100, 100, 100>>, <<81, 0, 0>>, <<255, 129, 45>>, <<0, 0, 0>>}

Calls ==
  [color : SampleColors, filter : FilterType, previousColor : SamplePrevious]

InitFilter ==
  /\ videoUrl = "blob:a"
  /\ colorFilter = "vibrant"
  /\ progress = DZero
  /\ error = ""
  /\ colors = <<>>
  /\ runs = <<>>
  /\ effect = 0
  /\ canvas = BlankCanvas(Layout[hexRadius], FALSE)
  /\ radius = hexRadius
  /\ call \in Calls
  /\ result = <<>>

ApplyFilter ==
  /\ result = <<>>
  /\ result' = Call("applyColorFilter",
                      <<call.color, call.filter, call.previousColor>>)
  /\ UNCHANGED <<videoUrl, colorFilter, progress, error, colors, runs,
                 effect, canvas, radius, call>>

NextFilter == ApplyFilter

SpecFilter == InitFilter /\ [][NextFilter]_vars

(***************************************************************************)
(* getBrightestColor on its own: one call on a frame of up to MaxPixels    *)
(* pixels, and its result.                                                 *)
(***************************************************************************)
MaxPixels == 3

SamplePixels ==
  {<<0, 0, 0>>, <<11, 1, 0>>, <<0, 0, 34>>, <<200, 50, 10>>, <<10, 200, 10>>,
   <<255, 255, 255>>}

Frames == UNION {[1..n -> SamplePixels] : n \in 1..MaxPixels}

InitBrightest ==
  /\ videoUrl = "blob:a"
  /\ colorFilter = "vibrant"
  /\ progress = DZero
  /\ error = ""
  /\ colors = <<>>
  /\ runs = <<>>
  /\ effect = 0
  /\ canvas = BlankCanvas(Layout[hexRadius], FALSE)
  /\ radius = hexRadius
  /\ call \in [imageData : Frames]
  /\ result = <<>>

GetBrightest ==
  /\ result = <<>>
  /\ result' = Call("getBrightestColor", <<call.imageData>>)
  /\ UNCHANGED <<videoUrl, colorFilter, progress, error, colors, runs,
                 effect, canvas, radius, call>>

NextBrightest == GetBrightest

SpecBrightest == InitBrightest /\ [][NextBrightest]_vars

(***************************************************************************)
(* The grid computation of generatePattern on its own (lines 111-115), for *)
(* a canvas and a cell size, whatever the video source and the filter.     *)
(***************************************************************************)
SampleWidths == {59, 60, 120, 1000}

SampleHeights == {69, 70, 140, 600}

SampleSizes == {7, 40, 200}

InitLayout ==
  /\ videoUrl \in Urls
  /\ colorFilter \in Offered
  /\ progress = DZero
  /\ error = ""
  /\ colors = <<>>
  /\ runs = <<>>
  /\ effect = 0
  /\ canvas = BlankCanvas(Layout[hexRadius], FALSE)
  /\ radius = hexRadius
  /\ call \in [width : SampleWidths, height : SampleHeights,
                size : SampleSizes]
  /\ result = <<>>

ComputeGrid ==
  /\ result = <<>>
  /\ result' = Call("layoutOf", <<call.width, call.height, call.size>>)
  /\ UNCHANGED <<videoUrl, colorFilter, progress, error, colors, runs,
                 effect, canvas, radius, call>>

NextLayout == ComputeGrid

SpecLayout == InitLayout /\ [][NextLayout]_vars

(***************************************************************************)
(* The properties.                                                         *)
(***************************************************************************)
\* C1: in every colour-mode run, the previousColor passed to
\* applyColorFilter for a cell i > 0 is the filtered colour the same run
\* rendered for cell i - 1.
PreviousIsFilteredOutput ==
  \A r \in Runs :
    runs[r].colorFilter # "frame-based" =>
      \A i \in 2..Len(runs[r].prevs) :
        runs[r].prevs[i] = runs[r].fills[i - 1]

\* C2: a run whose cancelled flag is set draws nothing more on the output
\* canvas and makes no further progress update when it resumes.
NoOutputAfterCancel ==
  [][\A r \in Runs :
       runs[r].cancelled =>
         /\ runs'[r].draws = runs[r].draws
         /\ runs'[r].progressCalls = runs[r].progressCalls]_vars

\* C3: every change of the video source or of the filter starts a new run,
\* resets progress to 0 and clears the error, whatever the state before.
RequestStartsRun ==
  [][(videoUrl' # videoUrl \/ colorFilter' # colorFilter) =>
       /\ Len(runs') = Len(runs) + 1
       /\ runs'[Len(runs')].pc = "awaitMetadata"
       /\ progress' = DZero
       /\ error' = ""]_vars

\* C4: a run whose seek failed is in the error state, with a message set;
\* it is not left suspended at the seek.
SeekFailureIsError ==
  \A r \in Runs :
    runs[r].seekFailed => runs[r].pc = "caught" /\ error # ""

\* C5: every gradient-flow run starts from an empty colour history and
\* renders, cell by cell, the colours that the first run after mounting
\* renders for the same candidates, whatever runs came before it.
GradientFlowDeterministic ==
  \A r \in Runs :
    runs[r].colorFilter = "gradient-flow" =>
      /\ runs[r].colors = <<>>
      /\ \A i \in 1..Len(runs[r].fills) :
           runs[r].fills[i] =
             Filtered["gradient-flow"][Candidates[runs[r].videoUrl][i - 1]]
                                      [Undefined]

\* C6: a run whose cancelled flag is set never sets the error message.
CancelIsNotAnError ==
  [][\A r \in Runs :
       runs[r].cancelled => runs'[r].errorCalls = runs[r].errorCalls]_vars

\* C7: a run cancelled before its last cell was rendered never sets
\* progress to 100.
CancelledNeverComplete ==
  [][\A r \in Runs :
       (runs[r].cancelled /\ runs'[r].progressCalls > runs[r].progressCalls)
         => progress' # FromInt(100)]_vars

\* C8: every channel of the colour applyColorFilter returns is an integer
\* in 0..255, for every filter, colour and optional previous colour.
ChannelsInRange ==
  result # <<>> => \A i \in 1..3 : result[i] \in 0..255

\* a call of the contrast filter on white, whose channels Math.min holds at
\* 255, has returned
ContrastClampReached ==
  /\ call.filter = "contrast"
  /\ call.color = <<255, 255, 255>>
  /\ result = <<255, 255, 255>>

GradientFlowBlend ==
  LET maxOf(t) == CHOOSE m \in {t[1], t[2], t[3]} :
                    \A i \in 1..3 : t[i] <= m
      min(a, b) == IF a < b THEN a ELSE b
      pushed10(t, i) == IF t[i] = maxOf(t) THEN min(2550, 13 * t[i])
                                           ELSE 7 * t[i]
  IN (result # <<>> /\ call.filter = "gradient-flow") =>
       \A i \in 1..3 :
         IF call.previousColor = Undefined
         THEN 10 * result[i] - pushed10(call.color, i) \in -5..5
         ELSE 100 * result[i]
                - (7 * pushed10(call.color, i)
                     + 3 * pushed10(call.previousColor, i)) \in -50..50

\* the blend of candidate RGB(154,71,71), pushed to (200.2, 49.7, 49.7),
\* with previous RGB(100,100,100), pushed to (130, 130, 130), has returned
GradientFlowBlendReached ==
  /\ call.filter = "gradient-flow"
  /\ call.color = <<154, 71, 71>>
  /\ call.previousColor = <<100, 100, 100>>
  /\ result = <<179, 74, 74>>

\* C10, as claimed: with a previous colour, each channel gradient-flow
\* returns is 0.7 x the saturation-pushed candidate channel + 0.3 x the
\* previous channel as it was passed, rounded; with no previous colour it
\* is the pushed candidate channel, rounded.
GradientFlowBlendPlainPrevious ==
  LET maxOf(t) == CHOOSE m \in {t[1], t[2], t[3]} :
                    \A i \in 1..3 : t[i] <= m
      min(a, b) == IF a < b THEN a ELSE b
      pushed10(t, i) == IF t[i] = maxOf(t) THEN min(2550, 13 * t[i])
                                           ELSE 7 * t[i]
  IN (result # <<>> /\ call.filter = "gradient-flow") =>
       \A i \in 1..3 :
         IF call.previousColor = Undefined
         THEN 10 * result[i] - pushed10(call.color, i) \in -5..5
         ELSE 100 * result[i]
                - (7 * pushed10(call.color, i)
                     + 30 * call.previousColor[i]) \in -50..50

\* C11: a run that is not cancelled renders its cells one by one, cell k - 1
\* at its k-th step, and sets progress to k / N * 100 there, which is 100
\* exactly at the last of its N cells; and when metadata loads and every
\* seek settles, a run that is neither cancelled nor fails finishes with
\* all N cells rendered.
RunCompletes ==
  /\ [][\A r \in Runs :
          (~runs[r].cancelled /\ runs'[r].hexIndex # runs[r].hexIndex) =>
            LET i == runs[r].hexIndex
                k == runs'[r].hexIndex
                N == runs[r].rows * runs[r].columns
                C == runs[r].columns
            IN /\ k = i + 1
               /\ k <= N
               /\ Len(runs'[r].fills) = k
               /\ runs'[r].draws = runs[r].draws + 1
               /\ canvas'.cells =
                    [canvas.cells EXCEPT ![<<i \div C, i % C>>] =
                                            runs'[r].fills[k]]
               /\ FCmp(FMul(progress', FromInt(N)), FromInt(100 * k)) = 0
               /\ (progress' = FromInt(100)) <=> (k = N)]_vars
  /\ \A r \in 1..MaxRuns :
       (r \in Runs) ~>
         /\ r \in Runs
         /\ \/ runs[r].cancelled
            \/ runs[r].seekFailed
            \/ runs[r].pc = "caught"
            \/ /\ runs[r].pc = "done"
               /\ runs[r].hexIndex = runs[r].rows * runs[r].columns
               /\ Len(runs[r].fills) = runs[r].hexIndex

\* a run that was never cancelled has rendered all of its cells
RunCompleted ==
  \E r \in Runs :
    /\ ~runs[r].cancelled
    /\ runs[r].pc = "done"
    /\ runs[r].rows * runs[r].columns > 1
    /\ Len(runs[r].fills) = runs[r].rows * runs[r].columns
    /\ progress = FromInt(100)

\* C12: the neon filter boosts one channel, a maximal one, by 1.5 (clamped
\* to 255) and multiplies the other two channels by 0.6, each rounded.
NeonSuppressesTwo ==
  (result # <<>> /\ call.filter = "neon") =>
    \E d \in 1..3 :
      /\ \A j \in 1..3 : call.color[j] <= call.color[d]
      /\ result[d] = IF (3 * call.color[d] + 1) \div 2 > 255 THEN 255
                     ELSE (3 * call.color[d] + 1) \div 2
      /\ \A j \in (1..3) \ {d} :
           result[j] = (12 * call.color[j] + 10) \div 20

\* C13: the contrast filter maps each channel c on its own, to
\* min(255, round(c * 1.4)) when c > 128 and to round(c / 1.4) otherwise.
ContrastPerChannel ==
  (result # <<>> /\ call.filter = "contrast") =>
    \A j \in 1..3 :
      result[j] =
        IF call.color[j] > 128
        THEN IF (28 * call.color[j] + 10) \div 20 > 255 THEN 255
             ELSE (28 * call.color[j] + 10) \div 20
        ELSE (10 * call.color[j] + 7) \div 14

\* the example of the contrast filter: a channel that is clamped and two
\* that are divided
ContrastExampleReached ==
  /\ call.filter = "contrast"
  /\ call.color = <<200, 50, 10>>
  /\ result = <<255, 36, 7>>

\* C14: getBrightestColor returns the first pixel in scan order among the
\* pixels of maximal luminance 0.299 R + 0.587 G + 0.114 B, each channel
\* multiplied by 1.2, clamped to 255 and rounded.
BrightestIsFirstMaximal ==
  result # <<>> =>
    \E i \in 1..Len(call.imageData) :
      LET Y(px) == 299 * px[1] + 587 * px[2] + 114 * px[3]
          boost(c) == IF (12 * c + 5) \div 10 > 255 THEN 255
                      ELSE (12 * c + 5) \div 10
      IN /\ \A j \in 1..Len(call.imageData) :
              Y(call.imageData[j]) <= Y(call.imageData[i])
         /\ \A j \in 1..(i - 1) :
              Y(call.imageData[j]) < Y(call.imageData[i])
         /\ result = <<boost(call.imageData[i][1]),
                       boost(call.imageData[i][2]),
                       boost(call.imageData[i][3])>>

\* C15: the grid has floor(width / (1.5 * cellSize)) columns and
\* floor(height / (cellSize * sqrt(3))) rows, whatever the video source
\* and the filter; 1000 x 600 with cells of 40 has 16 x 8 = 128 cells.
GridCellCount ==
  result # <<>> =>
    /\ result.columns = (2 * call.width) \div (3 * call.size)
    /\ 3 * result.rows * result.rows * call.size * call.size
         <= call.height * call.height
    /\ call.height * call.height
         < 3 * (result.rows + 1) * (result.rows + 1) * call.size * call.size
    /\ (call.width = 1000 /\ call.height = 600 /\ call.size = 40) =>
         (result.columns = 16 /\ result.rows = 8
          /\ result.columns * result.rows = 128)

\* the grid of the source's canvas and cell size
GridOfSourceReached ==
  /\ result # <<>>
  /\ call = [width |-> 1000, height |-> 600, size |-> 40]
  /\ result.rows * result.columns = 128

\* C16: a run samples its cells one at a time in ascending index order:
\* while the seek for cell i is pending, the cells 0 .. i - 1 and no others
\* are rendered, cell i lies at row i div C and column i mod C, and the
\* seek targets i / N * duration; the index only ever grows by one.
SequentialRowMajor ==
  /\ [](\A r \in Runs :
          /\ Len(runs[r].fills) = runs[r].hexIndex
          /\ runs[r].pc = "awaitSeek" =>
               /\ runs[r].hexIndex < runs[r].rows * runs[r].columns
               /\ runs[r].row = runs[r].hexIndex \div runs[r].columns
               /\ runs[r].col = runs[r].hexIndex % runs[r].columns
               /\ FCmp(FMul(runs[r].currentTime,
                            FromInt(runs[r].rows * runs[r].columns)),
                       FromInt(runs[r].hexIndex
                                 * VideoDuration(runs[r].videoUrl))) = 0)
  /\ [][\A r \in Runs :
          \/ runs'[r].hexIndex = runs[r].hexIndex
          \/ /\ runs[r].pc = "awaitSeek"
             /\ runs'[r].hexIndex = runs[r].hexIndex + 1]_vars

\* the seek for the last cell of a grid of two columns is pending
LastCellSeekPending ==
  \E r \in Runs :
    /\ runs[r].pc = "awaitSeek"
    /\ runs[r].columns = 2
    /\ runs[r].hexIndex = 3
    /\ runs[r].row = 1
    /\ runs[r].col = 1
    /\ Len(runs[r].fills) = 3

\* C17: a run whose video source fails while it waits for the metadata
\* ends in the catch block with an error message set; it has rendered no
\* cell and never does, and it sets progress only to 0, at its start.
MetadataFailureIsError ==
  /\ [][\A r \in Runs :
          /\ (/\ runs[r].pc = "awaitMetadata"
              /\ runs'[r].pc = "caught"
              /\ runs'[r].draws = runs[r].draws) =>
               /\ error' # ""
               /\ runs'[r].errorCalls = runs[r].errorCalls + 1
               /\ progress' = progress
          /\ runs[r].pc = "caught" => runs'[r].pc = "caught"]_vars
  /\ [](\A r \in Runs :
          (runs[r].pc = "caught" /\ runs[r].draws = 0) =>
            /\ runs[r].fills = <<>>
            /\ runs[r].hexIndex = 0
            /\ runs[r].progressCalls = 1)

\* the video source of the current run failed before its metadata loaded
MetadataFailed ==
  \E r \in Runs :
    /\ ~runs[r].cancelled
    /\ runs[r].pc = "caught"
    /\ runs[r].draws = 0
    /\ error = "Error processing video"
    /\ progress = DZero

\* C18: at most one run has its cancelled flag unset, and when a change of
\* the video source or of the filter starts a run, every earlier run has
\* its flag set and its video source cleared by then.
SingleLiveRun ==
  /\ [](Cardinality({r \in Runs : ~runs[r].cancelled}) <= 1)
  /\ [][Len(runs') > Len(runs) =>
          /\ Len(runs') = Len(runs) + 1
          /\ ~runs'[Len(runs')].cancelled
          /\ runs'[Len(runs')].pc = "awaitMetadata"
          /\ \A r \in Runs : runs'[r].cancelled /\ runs'[r].src = ""]_vars

\* a second run was started while the first one was suspended
SecondRunStarted ==
  /\ Len(runs) = 2
  /\ runs[1].cancelled
  /\ runs[1].src = ""
  /\ runs[1].pc \in {"awaitMetadata", "awaitSeek"}
  /\ ~runs[2].cancelled

====
